---- MODULE Spec2Model ----
(***************************************************************************)
(* A model of sqlite3_to_mysql.transporter.SQLite3toMySQL: the type        *)
(* translator (_translate_type_from_sqlite_to_mysql), the CREATE TABLE     *)
(* builder (_create_table) and the transfer loop (transfer,                *)
(* _transfer_table_data), run against a source SQLite database and a       *)
(* destination MySQL database.                                             *)
(*                                                                         *)
(* Strings are TLA+ strings; a character is a string of length one.        *)
(* A generated SQL statement is a sequence of clauses (records) in the     *)
(* order the code concatenates them; the whitespace clean-up of lines      *)
(* 182 and 186 does not change the clauses and is not modelled.            *)
(***************************************************************************)
EXTENDS Integers, Sequences, FiniteSets, TLC

VARIABLES
    sqlite,         \* the source database: tables of sqlite_master, in order
    kwargs_chunk,   \* the chunk option handed to __init__
    chunk_size,     \* self._chunk_size after __init__
    run,            \* "first" or "second" run of transfer() on this source
    pc,             \* position of the running transfer()
    tables,         \* the table names fetched at line 220
    idx,            \* index in tables of the table being processed
    total_records,  \* COUNT(*) of the table being processed
    cursor,         \* rows of the open SELECT * not fetched yet
    chunk_no,       \* iterations of the chunk loop done for this table
    mysql,          \* the destination: table name -> [ddl, rows]
    ops,            \* every statement issued, on either connection, in order
    log,            \* the records written to self._logger
    err,            \* the exception that left transfer(), or None
    migrated,       \* the destination as it was when the first run returned
    column_type,    \* translator harness: the declared type passed in
    mysql_type,     \* translator harness: the outcome of the call
    table_info,     \* builder harness: the PRAGMA table_info rows of a table
    create_sql      \* builder harness: the statement built, or the error

vars == <<sqlite, kwargs_chunk, chunk_size, run, pc, tables, idx, total_records, cursor,
          chunk_no, mysql, ops, log, err, migrated, column_type, mysql_type,
          table_info, create_sql>>

(***************************************************************************)
(* Bounds of the model.                                                    *)
(***************************************************************************)
MaxTables == 2
MaxRows == 3
MaxChunk == 2

(***************************************************************************)
(* Python string primitives used by the translator.                        *)
(***************************************************************************)
LowerLetters == "abcdefghijklmnopqrstuvwxyz"
UpperLetters == "ABCDEFGHIJKLMNOPQRSTUVWXYZ"
Digits == {"0", "1", "2", "3", "4", "5", "6", "7", "8", "9"}
\* the whitespace str.strip() removes; declared types hold no tab or newline
Whitespace == {" "}

CharAt(s, i) == SubSeq(s, i, i)

\* the upper-case letter of each lower-case letter
UpperOf ==
    [c \in {CharAt(LowerLetters, i) : i \in 1..Len(LowerLetters)} |->
        CharAt(UpperLetters,
               CHOOSE i \in 1..Len(LowerLetters) : CharAt(LowerLetters, i) = c)]

\* str.upper() on one character
UpperChar(c) == IF c \in DOMAIN UpperOf THEN UpperOf[c] ELSE c

RECURSIVE upper(_)
\* str.upper()
upper(s) == IF s = "" THEN "" ELSE UpperChar(CharAt(s, 1)) \o upper(Tail(s))

RECURSIVE lstrip(_)
lstrip(s) == IF s # "" /\ CharAt(s, 1) \in Whitespace THEN lstrip(Tail(s)) ELSE s

RECURSIVE rstrip(_)
rstrip(s) ==
    IF s # "" /\ CharAt(s, Len(s)) \in Whitespace
    THEN rstrip(SubSeq(s, 1, Len(s) - 1))
    ELSE s

\* str.strip()
strip(s) == rstrip(lstrip(s))

\* a re match object, or None
Match(g) == [found |-> TRUE, group |-> g]
NoMatch == [found |-> FALSE, group |-> ""]

\* COLUMN_PATTERN = re.compile(r"^[^(]+") matched at the start of s:
\* the longest prefix without "(", or None when that prefix is empty.
COLUMN_PATTERN(s) ==
    LET stops == {i \in 1..Len(s) : CharAt(s, i) = "("}
        last == IF stops = {} THEN Len(s)
                ELSE (CHOOSE i \in stops : \A j \in stops : i <= j) - 1
    IN  IF last = 0 THEN NoMatch ELSE Match(SubSeq(s, 1, last))

\* the match taken on the declared type as it is, not stripped
valid_column_type_unstripped(column_type_arg) == COLUMN_PATTERN(column_type_arg)

valid_column_type(column_type_arg) == COLUMN_PATTERN(strip(column_type_arg))

\* a suffix in parentheses at the end of s, whatever it holds
LengthSuffixAnyContent(s) ==
    LET n == Len(s)
        starts == {i \in 1..n :
                      CharAt(s, i) = "(" /\ i + 2 <= n /\ CharAt(s, n) = ")"}
    IN  IF starts = {} THEN NoMatch
        ELSE Match(SubSeq(s, CHOOSE i \in starts : \A j \in starts : i <= j, n))

\* re.search(r"\(\d+\)$", s): "(", one or more digits, ")" at the end of s
\* (declared types hold no newline, so $ is the end of the string).
LengthSuffix(s) ==
    LET n == Len(s)
        starts == {i \in 1..n :
                      /\ CharAt(s, i) = "("
                      /\ i + 2 <= n
                      /\ CharAt(s, n) = ")"
                      /\ \A j \in (i + 1)..(n - 1) : CharAt(s, j) \in Digits}
    IN  IF starts = {} THEN NoMatch
        ELSE Match(SubSeq(s, CHOOSE i \in starts : TRUE, n))

\* the length suffix with the default forgotten
column_type_length_no_default(column_type_arg, default) ==
    IF LengthSuffix(column_type_arg).found THEN LengthSuffix(column_type_arg).group
    ELSE ""

\* _column_type_length(column_type, default): default "" stands for None
column_type_length(column_type_arg, default) ==
    IF LengthSuffix(column_type_arg).found THEN LengthSuffix(column_type_arg).group
    ELSE IF default # "" THEN "(" \o default \o ")"
    ELSE ""

ValueError == [exc |-> "ValueError", msg |-> "Invalid column_type!"]

Returned(v) == [raised |-> FALSE, value |-> v]
Raised(e) == [raised |-> TRUE, error |-> e]

\* the type name compared with the sets as it is spelt, not upper-cased
translate_type_case_sensitive(column_type_arg) ==
    LET full_column_type == upper(column_type_arg)
        match == valid_column_type(column_type_arg)
        data_type == match.group
    IN  IF ~match.found THEN Raised(ValueError)
        ELSE IF data_type \in {"TEXT", "CLOB"} THEN Returned("TEXT")
        ELSE IF data_type \in {"CHARACTER", "NCHAR", "NATIVE CHARACTER"}
            THEN Returned("CHAR" \o column_type_length(column_type_arg, ""))
        ELSE IF data_type \in {"VARYING CHARACTER", "NVARCHAR", "VARCHAR"}
            THEN Returned("VARCHAR" \o column_type_length(column_type_arg, "255"))
        ELSE IF data_type = "DOUBLE PRECISION" THEN Returned("DOUBLE")
        ELSE IF data_type = "UNSIGNED BIG INT"
            THEN Returned("BIGINT" \o column_type_length(column_type_arg, "") \o " UNSIGNED")
        ELSE IF data_type \in {"INT1", "INT2"} THEN Returned("INT")
        ELSE Returned(full_column_type)

\* _translate_type_from_sqlite_to_mysql(column_type)
translate_type_from_sqlite_to_mysql(column_type_arg) ==
    LET full_column_type == upper(column_type_arg)
        match == valid_column_type(column_type_arg)
        data_type == upper(match.group)
    IN  IF ~match.found THEN Raised(ValueError)
        ELSE IF data_type \in {"TEXT", "CLOB"} THEN Returned("TEXT")
        ELSE IF data_type \in {"CHARACTER", "NCHAR", "NATIVE CHARACTER"}
            THEN Returned("CHAR" \o column_type_length(column_type_arg, ""))
        ELSE IF data_type \in {"VARYING CHARACTER", "NVARCHAR", "VARCHAR"}
            THEN Returned("VARCHAR" \o column_type_length(column_type_arg, "255"))
        ELSE IF data_type = "DOUBLE PRECISION" THEN Returned("DOUBLE")
        ELSE IF data_type = "UNSIGNED BIG INT"
            THEN Returned("BIGINT" \o column_type_length(column_type_arg, "") \o " UNSIGNED")
        ELSE IF data_type \in {"INT1", "INT2"} THEN Returned("INT")
        ELSE Returned(full_column_type)

(***************************************************************************)
(* The source database.  A table is [name, columns, rows]; a column is a   *)
(* row of PRAGMA table_info; a row carries its rowid and its values.       *)
(***************************************************************************)
Column(name, type, notnull, pk) ==
    [name |-> name, type |-> type, notnull |-> notnull, pk |-> pk]

\* the tables a source database is drawn from, in sqlite_master order
Catalogue ==
    << [name |-> "users",
        columns |-> <<Column("id", "INTEGER", 1, 1), Column("name", "TEXT", 0, 0)>>],
       [name |-> "notes",
        columns |-> <<Column("id", "INT2", 1, 1), Column("body", "", 0, 0)>>],
       [name |-> "links",
        columns |-> <<Column("a", "INT2", 1, 1), Column("b", "INT2", 1, 2)>>],
       [name |-> "sqlitex",
        columns |-> <<Column("id", "INT", 1, 1), Column("v", "VARCHAR(20)", 0, 0)>>],
       [name |-> "drafts",
        columns |-> <<Column("x", "  ", 0, 0)>>],
       [name |-> "pairs",
        columns |-> <<Column("a", "INT", 0, 0), Column("b", "REAL", 0, 0)>>],
       [name |-> "sqlite_sequence",
        columns |-> <<Column("name", "", 0, 0), Column("seq", "", 0, 0)>>],
       [name |-> "sizes",
        columns |-> <<Column("x", "(10)", 0, 0)>>] >>

TableNames == {Catalogue[i].name : i \in 1..Len(Catalogue)}

\* the value of column c in the row with rowid i: a serial key, except that
\* "pairs" (no key) holds equal rows and the second key column of "links"
\* repeats
Cell(name, c, i) ==
    IF name = "pairs" THEN 7
    ELSE IF name = "links" /\ c = 2 THEN i % 2
    ELSE i

SourceRows(t, n) ==
    [i \in 1..n |-> [rowid |-> i,
                     values |-> [c \in 1..Len(t.columns) |-> Cell(t.name, c, i)]]]

RECURSIVE SortedSeq(_)
\* the elements of a set of numbers in increasing order
SortedSeq(S) ==
    IF S = {} THEN <<>>
    ELSE LET m == CHOOSE x \in S : \A y \in S : x <= y
         IN  <<m>> \o SortedSeq(S \ {m})

\* the database holding the catalogue tables chosen, n[i] rows in table i
Database(chosen, n) ==
    LET order == SortedSeq(chosen)
    IN  [k \in 1..Len(order) |->
            [name |-> Catalogue[order[k]].name,
             columns |-> Catalogue[order[k]].columns,
             rows |-> SourceRows(Catalogue[order[k]], n[order[k]])]]

SourceTable(name) ==
    sqlite[CHOOSE k \in 1..Len(sqlite) : sqlite[k].name = name]

RECURSIVE Like(_, _)
\* SQLite's  s LIKE p : "_" matches one character, "%" any run of
\* characters, letters match without regard to case
Like(s, p) ==
    IF p = "" THEN s = ""
    ELSE IF CharAt(p, 1) = "%"
        THEN Like(s, Tail(p)) \/ (s # "" /\ Like(Tail(s), p))
    ELSE /\ s # ""
         /\ (CharAt(p, 1) = "_" \/ UpperChar(CharAt(s, 1)) = UpperChar(CharAt(p, 1)))
         /\ Like(Tail(s), Tail(p))

\* SELECT name FROM sqlite_master WHERE type='table' AND name NOT LIKE 'sqlite_%'
ListedTable(name) == ~Like(name, "sqlite_%")

RECURSIVE SelectNamesBackwards(_)
\* the same names, the last table of the catalogue first
SelectNamesBackwards(db) ==
    IF db = <<>> THEN <<>>
    ELSE SelectNamesBackwards(Tail(db))
         \o (IF ListedTable(Head(db).name) THEN <<Head(db).name>> ELSE <<>>)

RECURSIVE SelectNames(_)
SelectNames(db) ==
    IF db = <<>> THEN <<>>
    ELSE (IF ListedTable(Head(db).name) THEN <<Head(db).name>> ELSE <<>>)
         \o SelectNames(Tail(db))

(***************************************************************************)
(* __init__: the chunk option.  An integer option is [none |-> FALSE,      *)
(* value |-> n]; None is NoChunk.                                          *)
(***************************************************************************)
NoChunk == [none |-> TRUE, value |-> 0]
IntChunk(n) == [none |-> FALSE, value |-> n]

\* self._chunk_size = kwargs.get("chunk") or None; int() of it if truthy
InitChunk(chunk) ==
    IF chunk.none \/ chunk.value = 0 THEN NoChunk ELSE IntChunk(chunk.value)

ChunkOptions == {NoChunk} \cup {IntChunk(n) : n \in (0 - 1)..MaxChunk}

\* a chunk size of one taken as no chunk size
ChunkedAboveOne(size) == ~size.none /\ size.value > 1

\* if self._chunk_size is not None and self._chunk_size > 0
Chunked(size) == ~size.none /\ size.value > 0

\* every row left on the cursor is returned, whatever the size asked for
FetchManyUnlimited(available, size) == available

\* the number of rows self._sqlite_cur.fetchmany(size) returns from a cursor
\* that has `available` rows left
FetchMany(available, size) == IF available < size THEN available ELSE size

\* the quotient rounded down instead of up
CeilTruncated(a, b) == a \div b

\* ceil(total_records / self._chunk_size)
Ceil(a, b) == (a + b - 1) \div b

(***************************************************************************)
(* _create_table: the statement built at lines 161-186.                    *)
(***************************************************************************)
\* AUTO_INCREMENT on every column with the primary-key flag, whatever its type
ColumnDefinitionAnyKeyType(column) ==
    LET type == translate_type_from_sqlite_to_mysql(column.type).value
    IN  [kind |-> "column",
         name |-> column.name,
         type |-> type,
         notnull |-> IF column.notnull # 0 THEN "NOT NULL" ELSE "NULL",
         auto_increment |-> IF column.pk # 0 THEN "AUTO_INCREMENT" ELSE ""]

\* one " `{name}` {type} {notnull} {auto_increment}, " of the loop
ColumnDefinition(column) ==
    LET type == translate_type_from_sqlite_to_mysql(column.type).value
    IN  [kind |-> "column",
         name |-> column.name,
         type |-> type,
         notnull |-> IF column.notnull # 0 THEN "NOT NULL" ELSE "NULL",
         auto_increment |-> IF column.pk # 0 /\ type \in {"INT", "BIGINT"}
                            THEN "AUTO_INCREMENT" ELSE ""]

RECURSIVE PrimaryKey(_)
\* primary_key after the loop: the name of the last column whose pk is set
PrimaryKey(columns) ==
    IF columns = <<>> THEN ""
    ELSE IF columns[Len(columns)].pk # 0 THEN columns[Len(columns)].name
    ELSE PrimaryKey(SubSeq(columns, 1, Len(columns) - 1))

\* the clause added whether or not a key column was seen
PrimaryKeyClauseAlways(primary_key) ==
    <<[kind |-> "primary_key", name |-> primary_key]>>

\* if primary_key: sql += ", PRIMARY KEY (`{}`)"
PrimaryKeyClause(primary_key) ==
    IF primary_key # "" THEN <<[kind |-> "primary_key", name |-> primary_key]>>
    ELSE <<>>

\* "CREATE TABLE `{}` ( ", without IF NOT EXISTS
CreateTableHeaderPlain(table_name) ==
    [kind |-> "create_table", if_not_exists |-> FALSE, name |-> table_name]

\* "CREATE TABLE IF NOT EXISTS `{}` ( "
CreateTableHeader(table_name) ==
    [kind |-> "create_table", if_not_exists |-> TRUE, name |-> table_name]

\* the statement, or the ValueError of the first column whose type is invalid
CreateTableSql(table_name, columns) ==
    IF \E i \in 1..Len(columns) :
           translate_type_from_sqlite_to_mysql(columns[i].type).raised
    THEN Raised(ValueError)
    ELSE Returned(<<CreateTableHeader(table_name)>>
                  \o [i \in 1..Len(columns) |-> ColumnDefinition(columns[i])]
                  \o PrimaryKeyClause(PrimaryKey(columns))
                  \o <<[kind |-> "engine", name |-> "InnoDB CHARACTER SET utf8"]>>)

\* the statement with its field list in the opposite order
InsertSqlFieldsReversed(table_name, columns) ==
    [kind |-> "insert", ignore |-> TRUE, name |-> table_name,
     fields |-> [i \in 1..Len(columns) |-> columns[Len(columns) + 1 - i].name],
     placeholders |-> Len(columns)]

\* "INSERT IGNORE INTO `{table}` ({fields}) VALUES ({placeholders})"
InsertSql(table_name, columns) ==
    [kind |-> "insert", ignore |-> TRUE, name |-> table_name,
     fields |-> [i \in 1..Len(columns) |-> columns[i].name],
     placeholders |-> Len(columns)]

(***************************************************************************)
(* The destination.  mysql maps a table name to [exists, ddl, rows], each   *)
(* row holding one value per column in the order of the CREATE TABLE; a    *)
(* statement either succeeds with a new database or fails with a           *)
(* mysql.connector.Error.  A refused statement changes nothing that is     *)
(* committed, and the commit that follows an accepted statement succeeds.  *)
(***************************************************************************)
MySQLError(msg) == [exc |-> "mysql.connector.Error", msg |-> msg]
NoError == [exc |-> "None", msg |-> ""]

NoTable == [exists |-> FALSE, ddl |-> <<>>, rows |-> <<>>]

Accepted(db) == [ok |-> TRUE, db |-> db, error |-> NoError]
Refused(db, msg) == [ok |-> FALSE, db |-> db, error |-> MySQLError(msg)]

\* CREATE TABLE [IF NOT EXISTS]
ExecuteCreateTable(db, sql) ==
    LET name == sql[1].name
    IN  IF db[name].exists
        THEN IF sql[1].if_not_exists THEN Accepted(db)
             ELSE Refused(db, "1050 Table already exists")
        ELSE Accepted([db EXCEPT ![name] = [exists |-> TRUE, ddl |-> sql, rows |-> <<>>]])

\* the position in fields of the column of the table's PRIMARY KEY clause, or 0
KeyPosition(ddl, fields) ==
    LET keys == {ddl[i].name : i \in {j \in 1..Len(ddl) : ddl[j].kind = "primary_key"}}
        at == {i \in 1..Len(fields) : fields[i] \in keys}
    IN  IF at = {} THEN 0 ELSE CHOOSE i \in at : TRUE

RECURSIVE InsertRows(_, _, _, _)
\* the rows of the table after inserting the tuples one by one; a tuple whose
\* key is already there is skipped under IGNORE and is an error otherwise
InsertRows(present, tuples, key, ignore) ==
    IF tuples = <<>> THEN [ok |-> TRUE, rows |-> present]
    ELSE LET t == Head(tuples)
             dup == key # 0 /\ \E i \in 1..Len(present) : present[i][key] = t[key]
         IN  IF dup /\ ~ignore THEN [ok |-> FALSE, rows |-> present]
             ELSE InsertRows(IF dup THEN present ELSE Append(present, t),
                             Tail(tuples), key, ignore)

\* the names of the columns of a table, in the order of its CREATE TABLE
ColumnsOf(ddl) ==
    LET defs == SelectSeq(ddl, LAMBDA clause : clause.kind = "column")
    IN  [k \in 1..Len(defs) |-> defs[k].name]

Null == [null |-> TRUE]

\* the row a tuple of values makes in the table: the i-th value goes to the
\* column the i-th field names, a column no field names is left NULL
Bind(ddl, fields, t) ==
    [k \in 1..Len(ColumnsOf(ddl)) |->
        LET at == {i \in 1..Len(fields) : fields[i] = ColumnsOf(ddl)[k]}
        IN  IF at = {} THEN Null ELSE t[CHOOSE i \in at : TRUE]]

\* executemany(INSERT [IGNORE] ...) followed by commit
ExecuteMany(db, sql, tuples) ==
    LET name == sql.name
        ddl == db[name].ddl
        bound == [i \in 1..Len(tuples) |-> Bind(ddl, sql.fields, tuples[i])]
        done == InsertRows(db[name].rows, bound,
                           KeyPosition(ddl, ColumnsOf(ddl)), sql.ignore)
    IN  IF ~db[name].exists THEN Refused(db, "1146 Table doesn't exist")
        ELSE IF ~done.ok THEN Refused(db, "1062 Duplicate entry")
        ELSE Accepted([db EXCEPT ![name].rows = done.rows])

\* the destination refuses a statement for a reason of its own
Rejected(db) == Refused(db, "rejected by the destination")

(***************************************************************************)
(* The statements issued and the log records written.                      *)
(***************************************************************************)
Op(op, table, rows, ok) == [op |-> op, table |-> table, rows |-> rows, ok |-> ok]

LogRecord(level, fmt, args) == [level |-> level, fmt |-> fmt, args |-> args]

\* self._logger.error("_create_table failed creating table {}: {}".format(table_name, err))
CreateTableFailed(table_name, e) ==
    LogRecord("error", "_create_table failed creating table {}: {}", <<table_name, e.msg>>)

\* self._logger.error("transfer failed inserting data into table {}: {}".format(...))
TransferFailed(table_name, e) ==
    LogRecord("error", "transfer failed inserting data into table {}: {}", <<table_name, e.msg>>)

Transferring(table_name) == LogRecord("info", "Transferring table {}", <<table_name>>)
Done == LogRecord("info", "Done!", <<>>)

\* where control goes when _create_table raises: out of transfer()
CreateTableRaise == "raised"

\* the error swallowed and the table tried again
TransferRetry == "count"

\* where control goes when _transfer_table_data raises: out of transfer()
TransferRaise == "raised"

\* the test passed by an empty table too
AnythingToTransferAlways(total) == total >= 0

\* if total_records > 0
AnythingToTransfer(total) == total > 0

\* a harness that has not made its call yet
Idle == [raised |-> FALSE, value |-> "-"]

pipeline == <<sqlite, kwargs_chunk, chunk_size, run, pc, tables, idx, total_records, cursor,
              chunk_no, mysql, ops, log, err, migrated>>

(***************************************************************************)
(* transfer()                                                              *)
(***************************************************************************)
harness == <<column_type, mysql_type, table_info, create_sql>>

\* lines 217-220: the table names are fetched; without tables the loop is
\* skipped and transfer() returns
ListTables ==
    /\ pc = "start"
    /\ tables' = SelectNames(sqlite)
    /\ idx' = 1
    /\ ops' = Append(ops, Op("list_tables", "sqlite_master", <<>>, TRUE))
    /\ IF tables' = <<>>
       THEN pc' = "done" /\ log' = Append(log, Done)
       ELSE pc' = "create_table" /\ log' = log
    /\ UNCHANGED <<sqlite, kwargs_chunk, chunk_size, run, total_records, cursor, chunk_no,
                   mysql, err, migrated, harness>>

\* the end of one iteration of the loop over the tables
NextTable(written) ==
    /\ idx' = idx + 1
    /\ IF idx + 1 > Len(tables)
       THEN pc' = "done" /\ log' = written \o <<Done>>
       ELSE pc' = "create_table" /\ log' = written

\* line 224: self._create_table(table["name"])
CreateTable ==
    /\ pc = "create_table"
    /\ LET table_name == tables[idx]
           info == Op("table_info", table_name, <<>>, TRUE)
           sql == CreateTableSql(table_name, SourceTable(table_name).columns)
       IN  IF sql.raised
           THEN /\ err' = sql.error
                /\ pc' = CreateTableRaise
                /\ ops' = Append(ops, info)
                /\ UNCHANGED <<mysql, log>>
           ELSE \E fault \in BOOLEAN :
                LET res == IF fault THEN Rejected(mysql)
                           ELSE ExecuteCreateTable(mysql, sql.value)
                IN  IF res.ok
                    THEN /\ mysql' = res.db
                         /\ ops' = ops \o <<info,
                                           Op("create_table", table_name, <<>>, TRUE),
                                           Op("commit", table_name, <<>>, TRUE)>>
                         /\ pc' = "count"
                         /\ UNCHANGED <<err, log>>
                    ELSE /\ ops' = ops \o <<info,
                                           Op("create_table", table_name, <<>>, FALSE)>>
                         /\ log' = Append(log, CreateTableFailed(table_name, res.error))
                         /\ err' = res.error
                         /\ pc' = CreateTableRaise
                         /\ UNCHANGED mysql
    /\ UNCHANGED <<sqlite, kwargs_chunk, chunk_size, run, tables, idx, total_records, cursor,
                   chunk_no, migrated, harness>>

\* lines 227-242: the row count is read; with rows to transfer, the SELECT *
\* is opened and the INSERT statement is built
CountRows ==
    /\ pc = "count"
    /\ LET table_name == tables[idx]
           count == Op("count", table_name, <<>>, TRUE)
       IN  /\ total_records' = Len(SourceTable(table_name).rows)
           /\ IF AnythingToTransfer(total_records')
              THEN /\ ops' = ops \o <<count, Op("select", table_name, <<>>, TRUE)>>
                   /\ log' = Append(log, Transferring(table_name))
                   /\ cursor' = SourceTable(table_name).rows
                   /\ chunk_no' = 0
                   /\ pc' = "transfer"
                   /\ idx' = idx
              ELSE /\ ops' = Append(ops, count)
                   /\ NextTable(log)
                   /\ UNCHANGED <<cursor, chunk_no>>
    /\ UNCHANGED <<sqlite, kwargs_chunk, chunk_size, run, tables, mysql, err, migrated, harness>>

\* executemany of the rows fetched, then commit (lines 200-207, 209-212), with
\* the except clause of lines 245-251
InsertBatch(table_name, fetch, batch, last, next_no) ==
    \E fault \in BOOLEAN :
        LET sql == InsertSql(table_name, SourceTable(table_name).columns)
            tuples == [i \in 1..Len(batch) |-> batch[i].values]
            res == IF fault THEN Rejected(mysql) ELSE ExecuteMany(mysql, sql, tuples)
        IN  IF res.ok
            THEN /\ mysql' = res.db
                 /\ ops' = ops \o <<Op(fetch, table_name, batch, TRUE),
                                   Op("executemany", table_name, batch, TRUE),
                                   Op("commit", table_name, <<>>, TRUE)>>
                 /\ IF last THEN NextTable(log)
                    ELSE pc' = "transfer" /\ idx' = idx /\ log' = log
                 /\ chunk_no' = next_no
                 /\ err' = err
            ELSE /\ ops' = ops \o <<Op(fetch, table_name, batch, TRUE),
                                   Op("executemany", table_name, batch, FALSE)>>
                 /\ log' = Append(log, TransferFailed(table_name, res.error))
                 /\ err' = res.error
                 /\ pc' = TransferRaise
                 /\ UNCHANGED <<mysql, idx, chunk_no>>

\* one iteration of the loop of lines 199-207
TransferChunk ==
    /\ pc = "transfer"
    /\ Chunked(chunk_size)
    /\ chunk_no < Ceil(total_records, chunk_size.value)
    /\ LET n == FetchMany(Len(cursor), chunk_size.value)
       IN  /\ InsertBatch(tables[idx], "fetchmany", SubSeq(cursor, 1, n),
                          chunk_no + 1 >= Ceil(total_records, chunk_size.value),
                          chunk_no + 1)
           /\ cursor' = SubSeq(cursor, n + 1, Len(cursor))
    /\ UNCHANGED <<sqlite, kwargs_chunk, chunk_size, run, tables, total_records, migrated, harness>>

\* lines 209-212: everything is fetched and inserted at once
TransferAll ==
    /\ pc = "transfer"
    /\ ~Chunked(chunk_size)
    /\ InsertBatch(tables[idx], "fetchall", cursor, TRUE, chunk_no)
    /\ cursor' = <<>>
    /\ UNCHANGED <<sqlite, kwargs_chunk, chunk_size, run, tables, total_records, migrated, harness>>

\* transfer() has returned: the migration is run once more, by a new
\* SQLite3toMySQL, on the same source and the same destination
Rerun ==
    /\ pc = "done"
    /\ run = "first"
    /\ run' = "second"
    /\ migrated' = mysql
    /\ pc' = "start"
    /\ tables' = <<>>
    /\ idx' = 0
    /\ total_records' = 0
    /\ cursor' = <<>>
    /\ chunk_no' = 0
    /\ ops' = <<>>
    /\ log' = <<>>
    /\ UNCHANGED <<sqlite, kwargs_chunk, chunk_size, mysql, err, harness>>

Init ==
    /\ \E chosen \in SUBSET (1..Len(Catalogue)) :
         /\ Cardinality(chosen) \in 1..MaxTables
         /\ \E n \in [chosen -> 0..MaxRows] : sqlite = Database(chosen, n)
    /\ kwargs_chunk \in ChunkOptions
    /\ chunk_size = InitChunk(kwargs_chunk)
    /\ run = "first"
    /\ pc = "start"
    /\ tables = <<>>
    /\ idx = 0
    /\ total_records = 0
    /\ cursor = <<>>
    /\ chunk_no = 0
    /\ mysql = [name \in TableNames |-> NoTable]
    /\ ops = <<>>
    /\ log = <<>>
    /\ err = NoError
    /\ migrated = mysql
    /\ column_type = ""
    /\ mysql_type = Idle
    /\ table_info = <<>>
    /\ create_sql = Idle

Next ==
    \/ ListTables
    \/ CreateTable
    \/ CountRows
    \/ TransferChunk
    \/ TransferAll
    \/ Rerun

Spec == Init /\ [][Next]_vars

(***************************************************************************)
(* Translator harness: one call of the translator on a declared type.      *)
(***************************************************************************)
TypeNames ==
    {"TEXT", "CLOB", "CHARACTER", "NCHAR", "NATIVE CHARACTER",
     "VARYING CHARACTER", "NVARCHAR", "VARCHAR", "DOUBLE PRECISION",
     "UNSIGNED BIG INT", "INT1", "INT2", "INTEGER", "INT", "BIGINT", "REAL",
     "BLOB", "NUMERIC", "DECIMAL", "text", "VarChar", "nvarchar", "int2",
     "integer", "unsigned big int"}

TypeSuffixes == {"", "(20)", "(100)", "(50)", "(10,2)", "()", " (5)", "(5) "}

\* declared types without a leading type name
Untyped == {"", " ", "  ", "(10)", " (10)", "("}

DeclaredTypes ==
    {n \o x : n \in TypeNames, x \in TypeSuffixes} \cup Untyped \cup {" TEXT", " int1 "}

\* a caller invokes SQLite3toMySQL._translate_type_from_sqlite_to_mysql
Translate ==
    /\ mysql_type = Idle
    /\ mysql_type' = translate_type_from_sqlite_to_mysql(column_type)
    /\ UNCHANGED <<pipeline, column_type, table_info, create_sql>>

TranslateInit ==
    /\ column_type \in DeclaredTypes
    /\ mysql_type = Idle
    /\ sqlite = <<>>
    /\ kwargs_chunk = NoChunk
    /\ chunk_size = NoChunk
    /\ run = "first"
    /\ pc = "off"
    /\ tables = <<>>
    /\ idx = 0
    /\ total_records = 0
    /\ cursor = <<>>
    /\ chunk_no = 0
    /\ mysql = [name \in TableNames |-> NoTable]
    /\ ops = <<>>
    /\ log = <<>>
    /\ err = NoError
    /\ migrated = mysql
    /\ table_info = <<>>
    /\ create_sql = Idle

TranslateNext == Translate

TranslateSpec == TranslateInit /\ [][TranslateNext]_vars

(***************************************************************************)
(* Builder harness: the statement _create_table builds for one table.      *)
(***************************************************************************)
MaxColumns == 2

ColumnTypes ==
    {"INTEGER", "INT", "INT1", "BIGINT", "INT(11)", "integer", "UNSIGNED BIG INT",
     "TEXT", "VARCHAR(20)", ""}

ColumnNames == [i \in 1..(MaxColumns + 1) |-> CharAt("abcdefgh", i)]

\* the pk values PRAGMA table_info gives n columns: 0 off the primary key,
\* the 1-based rank in the primary key on it
KeyRanks(n) ==
    {pk \in [1..n -> 0..n] :
        LET on == {i \in 1..n : pk[i] # 0}
        IN  /\ \A i \in on : pk[i] <= Cardinality(on)
            /\ \A i, j \in on : pk[i] = pk[j] => i = j}

\* lines 161-186 of _create_table run on the table_info rows
BuildCreateTable ==
    /\ create_sql = Idle
    /\ create_sql' = CreateTableSql("t", table_info)
    /\ UNCHANGED <<pipeline, column_type, mysql_type, table_info>>

CreateTableInit ==
    /\ \E n \in 1..MaxColumns :
         \E type \in [1..n -> ColumnTypes], notnull \in [1..n -> {0, 1}], pk \in KeyRanks(n) :
            table_info = [i \in 1..n |-> Column(ColumnNames[i], type[i], notnull[i], pk[i])]
    /\ create_sql = Idle
    /\ column_type = ""
    /\ mysql_type = Idle
    /\ sqlite = <<>>
    /\ kwargs_chunk = NoChunk
    /\ chunk_size = NoChunk
    /\ run = "first"
    /\ pc = "off"
    /\ tables = <<>>
    /\ idx = 0
    /\ total_records = 0
    /\ cursor = <<>>
    /\ chunk_no = 0
    /\ mysql = [name \in TableNames |-> NoTable]
    /\ ops = <<>>
    /\ log = <<>>
    /\ err = NoError
    /\ migrated = mysql

CreateTableNext == BuildCreateTable

CreateTableSpec == CreateTableInit /\ [][CreateTableNext]_vars

(***************************************************************************)
(* Properties.                                                             *)
(***************************************************************************)
\* the positions in ops of the statements of one kind issued for a table
Positions(name, kind) ==
    {i \in 1..Len(ops) : ops[i].table = name /\ ops[i].op = kind}

\* the places <<i, j>> where a row was handed to executemany: row j of ops[i]
Submissions(name, row) ==
    {p \in UNION {{<<i, j>> : j \in 1..Len(ops[i].rows)} :
                     i \in Positions(name, "executemany")} :
        ops[p[1]].rows[p[2]] = row}

Range(f) == {f[i] : i \in DOMAIN f}

\* the least number of groups of at most c that hold n rows
LeastBatches(n, c) == CHOOSE m \in 0..n : m * c >= n /\ (m - 1) * c < n

\* C1: in chunked mode (chunk size C > 0), a table of N > 0 rows whose
\* transfer has ended was inserted in exactly ceil(N/C) executemany batches,
\* every source row is in exactly one batch, and the batches hold nothing else.
C1_ChunkedBatches ==
    Chunked(chunk_size) =>
        \A k \in 1..Len(tables) :
            LET name == tables[k]
                rows == SourceTable(name).rows
                at == Positions(name, "executemany")
            IN  (k < idx /\ Len(rows) > 0) =>
                    /\ Cardinality(at) = LeastBatches(Len(rows), chunk_size.value)
                    /\ \A r \in 1..Len(rows) :
                           Cardinality(Submissions(name, rows[r])) = 1
                    /\ \A i \in at : Range(ops[i].rows) \subseteq Range(rows)

\* a table of 3 rows was transferred with chunk size 2: a full batch and a
\* partial one
C1_Witness ==
    /\ chunk_size = IntChunk(2)
    /\ \E k \in 1..Len(tables) :
           /\ k < idx
           /\ Len(SourceTable(tables[k]).rows) = 3
           /\ Cardinality(Positions(tables[k], "executemany")) = 2

\* the column definitions of a statement built
ColumnClauses(sql) == {i \in 1..Len(sql) : sql[i].kind = "column"}

\* the PRIMARY KEY clauses of a statement built
KeyClauses(sql) == {i \in 1..Len(sql) : sql[i].kind = "primary_key"}

\* the columns of table_info that carry the primary-key flag
KeyColumns(columns) == {i \in 1..Len(columns) : columns[i].pk # 0}

\* a declared type spelt as an integer type, with or without a length
IntegerType(type) ==
    upper(COLUMN_PATTERN(type).group) \in {"INTEGER", "INT", "INT1", "INT2", "BIGINT"}

\* a declared type spelt as a text type, with or without a length
TextType(type) ==
    upper(COLUMN_PATTERN(type).group) \in {"TEXT", "CLOB", "VARCHAR", "NVARCHAR"}

\* the definition of column `name` in a statement built carries AUTO_INCREMENT
AutoIncrement(sql, name) ==
    \E i \in ColumnClauses(sql) :
        sql[i].name = name /\ sql[i].auto_increment = "AUTO_INCREMENT"

\* C2: a table whose only primary-key column has an integer declared type
\* gets a PRIMARY KEY clause for that column and AUTO_INCREMENT on it; a table
\* whose primary-key column has a text type gets PRIMARY KEY but no
\* AUTO_INCREMENT.
C2_IntegerKeyAutoIncrement ==
    (create_sql # Idle /\ ~create_sql.raised /\ Cardinality(KeyColumns(table_info)) = 1) =>
        LET key == table_info[CHOOSE i \in KeyColumns(table_info) : TRUE]
            sql == create_sql.value
        IN  /\ IntegerType(key.type) =>
                /\ \E i \in KeyClauses(sql) : sql[i].name = key.name
                /\ AutoIncrement(sql, key.name)
            /\ TextType(key.type) =>
                /\ \E i \in KeyClauses(sql) : sql[i].name = key.name
                /\ \A i \in ColumnClauses(sql) : sql[i].auto_increment = ""

\* C9: the statement built holds exactly one PRIMARY KEY clause, naming a
\* column that carries the primary-key flag, when some column carries the
\* flag, and none otherwise; without a flagged column no column definition
\* carries AUTO_INCREMENT.
C9_OnePrimaryKeyClause ==
    (create_sql # Idle /\ ~create_sql.raised) =>
        LET sql == create_sql.value
            keys == KeyColumns(table_info)
        IN  /\ Cardinality(KeyClauses(sql)) = (IF keys = {} THEN 0 ELSE 1)
            /\ \A i \in KeyClauses(sql) : \E k \in keys : table_info[k].name = sql[i].name
            /\ keys = {} => \A i \in ColumnClauses(sql) : sql[i].auto_increment = ""

\* a statement was built for a table with two flagged columns, and one for a
\* table with none
C9_Witness ==
    /\ create_sql # Idle
    /\ ~create_sql.raised
    /\ Cardinality(KeyColumns(table_info)) = 2
    /\ Cardinality(KeyClauses(create_sql.value)) = 1

\* C8: the translator gives the listed result for each listed declared type,
\* and raises the invalid-type error for the empty string.
C8_TranslateExamples ==
    mysql_type # Idle =>
        /\ column_type = "TEXT" => mysql_type = Returned("TEXT")
        /\ column_type = "VARCHAR(100)" => mysql_type = Returned("VARCHAR(100)")
        /\ column_type = "VARCHAR" => mysql_type = Returned("VARCHAR(255)")
        /\ column_type = "NVARCHAR(50)" => mysql_type = Returned("VARCHAR(50)")
        /\ column_type = "UNSIGNED BIG INT" => mysql_type = Returned("BIGINT UNSIGNED")
        /\ column_type = "UNSIGNED BIG INT(20)" => mysql_type = Returned("BIGINT(20) UNSIGNED")
        /\ column_type = "INT1" => mysql_type = Returned("INT")
        /\ column_type = "DOUBLE PRECISION" => mysql_type = Returned("DOUBLE")
        /\ column_type = "" => mysql_type = Raised(ValueError)

\* the translator was called on "UNSIGNED BIG INT(20)"
C8_Witness == column_type = "UNSIGNED BIG INT(20)" /\ mysql_type # Idle

\* SQLite reserves the table names that begin with "sqlite_"
Reserved(name) == Len(name) >= 7 /\ upper(SubSeq(name, 1, 7)) = "SQLITE_"

\* the statements that move rows of a table
DataOps == {"select", "fetchmany", "fetchall", "executemany"}

\* an accepted CREATE TABLE for the table was issued and then committed
CreatedAndCommitted(name) ==
    \E i \in Positions(name, "create_table") :
        /\ ops[i].ok
        /\ i < Len(ops)
        /\ ops[i + 1].op = "commit"

\* C3: when transfer() has returned normally, every source table that is not
\* reserved has had its CREATE TABLE issued, and each of its rows was handed to
\* exactly one executemany, which the next statement committed.
C3_EveryTableMigrated ==
    (pc = "done" /\ err = NoError) =>
        \A t \in 1..Len(sqlite) :
            ~Reserved(sqlite[t].name) =>
                /\ Positions(sqlite[t].name, "create_table") # {}
                /\ \A r \in 1..Len(sqlite[t].rows) :
                       LET at == Submissions(sqlite[t].name, sqlite[t].rows[r])
                       IN  /\ Cardinality(at) = 1
                           /\ \A p \in at :
                                  /\ ops[p[1]].ok
                                  /\ p[1] < Len(ops)
                                  /\ ops[p[1] + 1].op = "commit"

\* C4: the step that raises the first error leaves the destination as it was,
\* and from then on no statement is issued and the destination does not
\* change.
C4_FailFast ==
    [][(err' # NoError) => /\ mysql' = mysql
                           /\ (err # NoError => ops' = ops)
                           /\ (err = NoError => ~ops'[Len(ops')].ok \/ err' = ValueError)]_vars

\* the second chunk of the first of two tables was refused: a committed batch
\* precedes the error and a table follows the failing one
C4_Witness ==
    /\ pc = "raised"
    /\ err = MySQLError("rejected by the destination")
    /\ idx = 1
    /\ Len(tables) = 2
    /\ mysql[tables[1]].rows # <<>>

\* a declared type that is empty, all whitespace, or begins with "("
Unparseable(type) ==
    \/ \A i \in 1..Len(type) : CharAt(type, i) \in Whitespace
    \/ CharAt(type, 1) = "("

\* C5: for a table with a column of unparseable declared type no CREATE TABLE
\* and no statement moving rows is ever issued, the destination never holds
\* the table, and the step that raises the invalid-type error leaves the
\* destination, with every table processed before, as it was.
C5_InvalidTypeAborts ==
    /\ [](\A t \in 1..Len(sqlite) :
            (\E c \in 1..Len(sqlite[t].columns) : Unparseable(sqlite[t].columns[c].type)) =>
                /\ \A i \in 1..Len(ops) :
                       ops[i].table = sqlite[t].name =>
                           ops[i].op \notin DataOps \cup {"create_table", "commit"}
                /\ ~mysql[sqlite[t].name].exists
                /\ (idx \in 1..Len(tables) /\ tables[idx] = sqlite[t].name
                        /\ pc # "create_table") => (pc = "raised" /\ err = ValueError))
    /\ [][(err' = ValueError) => mysql' = mysql]_vars

\* the second table has a column without a valid type; the first one was
\* created and filled before the run stopped
C5_Witness ==
    /\ pc = "raised"
    /\ err = ValueError
    /\ idx = 2
    /\ mysql[tables[1]].rows # <<>>
    /\ ops[Len(ops)].op = "table_info"

\* the tables of the source whose PRIMARY KEY the destination holds
Keyed == {t \in 1..Len(sqlite) : PrimaryKey(sqlite[t].columns) # ""}

\* C6: in a second run on the destination a first run has fully migrated, no
\* statement fails on what the first run left (the only error possible is the
\* destination refusing for a reason of its own), every CREATE TABLE leaves
\* the table as it was, and every table with a primary key keeps the row
\* count it had after the first run, chunked or not.
C6_SecondRunIdempotent ==
    run = "second" =>
        /\ err # NoError => err = MySQLError("rejected by the destination")
        /\ \A name \in TableNames :
               /\ mysql[name].exists = migrated[name].exists
               /\ mysql[name].ddl = migrated[name].ddl
        /\ \A t \in Keyed :
               Len(mysql[sqlite[t].name].rows) = Len(migrated[sqlite[t].name].rows)

\* the second run has returned after inserting, in chunks, the rows of a table
\* with a primary key again
C6_Witness ==
    /\ run = "second"
    /\ pc = "done"
    /\ err = NoError
    /\ Chunked(chunk_size)
    /\ \E t \in Keyed :
           /\ Positions(sqlite[t].name, "executemany") # {}
           /\ Positions(sqlite[t].name, "create_table") # {}
           /\ Len(mysql[sqlite[t].name].rows) = MaxRows

\* C7: a table whose row count was read as zero has had its CREATE TABLE
\* issued and committed, holds the translated schema in the destination, and
\* has no SELECT of its rows, no fetch, no executemany and no commit other
\* than the one of its CREATE TABLE.
C7_EmptyTableCreatedOnly ==
    \A name \in Range(tables) :
        (Positions(name, "count") # {} /\ SourceTable(name).rows = <<>>) =>
            /\ CreatedAndCommitted(name)
            /\ mysql[name].exists
            /\ mysql[name].ddl = CreateTableSql(name, SourceTable(name).columns).value
            /\ \A kind \in DataOps : Positions(name, kind) = {}
            /\ Cardinality(Positions(name, "commit")) = 1

\* the run has returned after an empty table, and a table with rows after it,
\* were processed
C7_Witness ==
    /\ pc = "done"
    /\ Len(tables) = 2
    /\ SourceTable(tables[1]).rows = <<>>
    /\ SourceTable(tables[2]).rows # <<>>
    /\ mysql[tables[1]].exists

RECURSIVE Contains(_, _)
\* the string s holds the string part
Contains(s, part) ==
    /\ Len(s) >= Len(part)
    /\ (SubSeq(s, 1, Len(part)) = part \/ Contains(Tail(s), part))

\* C10: the error that leaves transfer() carries the name of the failing
\* table and the underlying cause.
C10_ErrorNamesTable ==
    pc = "raised" =>
        /\ err # NoError
        /\ err.msg # ""
        /\ Contains(err.msg, tables[idx])

RECURSIVE Uncommitted(_)
\* the rows of the accepted executemany calls of a log that no later commit
\* of that log has made durable
Uncommitted(done) ==
    IF done = <<>> THEN 0
    ELSE LET last == done[Len(done)]
             before == SubSeq(done, 1, Len(done) - 1)
         IN  IF last.op = "commit" THEN 0
             ELSE IF last.op = "executemany" /\ last.ok
             THEN Uncommitted(before) + Len(last.rows)
             ELSE Uncommitted(before)

\* C12: in chunked mode (chunk size C > 0) every executemany is handed the
\* rows of the fetchmany just before it, between 1 and C of them; an accepted
\* executemany is followed at once by exactly one commit, so that after any
\* prefix of the statements issued at most C inserted rows are uncommitted;
\* and a batch of fewer than C rows is the last batch of its table.
C12_CommitPerChunk ==
    (~chunk_size.none /\ chunk_size.value > 0) =>
        /\ \A i \in 1..Len(ops) :
              ops[i].op = "executemany" =>
                  /\ Len(ops[i].rows) \in 1..chunk_size.value
                  /\ i > 1
                  /\ ops[i - 1].op = "fetchmany"
                  /\ ops[i - 1].table = ops[i].table
                  /\ ops[i - 1].rows = ops[i].rows
                  /\ ops[i].ok =>
                        /\ i < Len(ops)
                        /\ ops[i + 1].op = "commit"
                        /\ ops[i + 1].table = ops[i].table
                        /\ i + 2 <= Len(ops) => ops[i + 2].op # "commit"
                  /\ Len(ops[i].rows) < chunk_size.value =>
                        \A j \in (i + 1)..Len(ops) :
                            ops[j].table = ops[i].table =>
                                ops[j].op \notin {"fetchmany", "executemany"}
        /\ \A k \in 0..Len(ops) :
              Uncommitted(SubSeq(ops, 1, k)) <= chunk_size.value

\* a table of three rows went through in chunks of two: a full batch, then a
\* batch of one, each committed
C12_Witness ==
    /\ pc = "done"
    /\ ~chunk_size.none
    /\ chunk_size.value = 2
    /\ \E i, j \in 1..Len(ops) :
          /\ i < j
          /\ ops[i].op = "executemany" /\ ops[i].ok /\ Len(ops[i].rows) = 2
          /\ ops[j].op = "executemany" /\ ops[j].ok /\ Len(ops[j].rows) = 1
          /\ ops[j].table = ops[i].table
          /\ ops[j + 1].op = "commit"

\* C13: in the statement built, the definition of a column carries
\* AUTO_INCREMENT exactly when the column has the primary-key flag and its
\* declared type translates to exactly INT or BIGINT; every other definition
\* carries nothing in that place.
C13_AutoIncrementIff ==
    (create_sql # Idle /\ ~create_sql.raised) =>
        \A i \in 1..Len(table_info) :
            LET clause == create_sql.value[i + 1]
                translated == translate_type_from_sqlite_to_mysql(table_info[i].type)
                wanted == /\ table_info[i].pk # 0
                          /\ translated \in {Returned("INT"), Returned("BIGINT")}
            IN  /\ clause.kind = "column"
                /\ clause.name = table_info[i].name
                /\ clause.auto_increment = (IF wanted THEN "AUTO_INCREMENT" ELSE "")

\* a statement was built for a key column translated to INT, which carries
\* AUTO_INCREMENT, next to a column without the flag and of the same type,
\* which does not
C13_Witness ==
    /\ create_sql # Idle
    /\ ~create_sql.raised
    /\ Len(table_info) = 2
    /\ table_info[1].type = "INT1" /\ table_info[1].pk # 0
    /\ table_info[2].type = "INT1" /\ table_info[2].pk = 0
    /\ create_sql.value[2].auto_increment = "AUTO_INCREMENT"
    /\ create_sql.value[3].auto_increment = ""

\* the place of a table in the source catalogue
CataloguePlace(name) == CHOOSE k \in 1..Len(sqlite) : sqlite[k].name = name

\* the place of a table in the list the run works through
TablePlace(name) == CHOOSE k \in 1..Len(tables) : tables[k] = name

\* statement b may be the one issued right after statement a, itself issued
\* right after statement before
Follows(before, a, b) ==
    LET same == b.table = a.table
        next == /\ b.op = "table_info"
                /\ TablePlace(b.table) = TablePlace(a.table) + 1
        fetch == b.op \in {"fetchmany", "fetchall"} /\ same
        total == Len(SourceTable(a.table).rows)
    IN  CASE a.op = "list_tables" -> b.op = "table_info" /\ b.table = tables[1]
          [] a.op = "table_info" -> b.op = "create_table" /\ same
          [] a.op = "create_table" -> a.ok /\ b.op = "commit" /\ same
          [] a.op = "commit" ->
                IF before.op = "create_table" THEN b.op = "count" /\ same
                ELSE fetch \/ next
          [] a.op = "count" ->
                IF total > 0 THEN b.op = "select" /\ same ELSE next
          [] a.op = "select" -> fetch
          [] a.op \in {"fetchmany", "fetchall"} -> b.op = "executemany" /\ same
          [] a.op = "executemany" -> a.ok /\ b.op = "commit" /\ same

\* C14: the tables are worked through in the order of the source catalogue;
\* for each one the statements are issued in the order table_info, CREATE
\* TABLE, commit, count, then, only with a positive count, SELECT and the
\* batches; an insert into a table comes after the commit of its CREATE
\* TABLE, and no statement of a table is issued once the CREATE TABLE of a
\* later table has been.
C14_TableByTable ==
    /\ \A i, j \in 1..Len(tables) :
          i < j => CataloguePlace(tables[i]) < CataloguePlace(tables[j])
    /\ ops # <<>> => ops[1].op = "list_tables"
    /\ \A i \in 2..Len(ops) :
          Follows(IF i > 2 THEN ops[i - 2] ELSE ops[1], ops[i - 1], ops[i])
    /\ \A i \in 1..Len(ops) :
          ops[i].op = "executemany" =>
              \E j \in 1..(i - 2) :
                  /\ ops[j].op = "create_table" /\ ops[j].table = ops[i].table
                  /\ ops[j].ok
                  /\ ops[j + 1].op = "commit"
    /\ \A i, j \in 2..Len(ops) :
          (i < j /\ ops[j].op = "create_table") =>
              TablePlace(ops[i].table) <= TablePlace(ops[j].table)

\* the run has returned after two tables with rows: every commit of the first
\* comes before the CREATE TABLE of the second
C14_Witness ==
    /\ pc = "done"
    /\ Len(tables) = 2
    /\ \A k \in 1..2 : Positions(tables[k], "executemany") # {}
    /\ \A i \in Positions(tables[1], "commit"), j \in Positions(tables[2], "create_table") :
          i < j

\* the chunk option is an integer above zero
PositiveOption(option) == ~option.none /\ option.value >= 1

\* C15: rows are fetched with fetchmany exactly when the chunk option given
\* is a positive integer, and with fetchall exactly when it is absent, zero or
\* negative; in the latter case a table of N > 0 rows whose transfer has ended
\* was moved by one fetchall, one executemany holding its N rows in order, and
\* one commit after it.
C15_ModeByChunkOption ==
    /\ \A i \in 1..Len(ops) :
          /\ ops[i].op = "fetchmany" => PositiveOption(kwargs_chunk)
          /\ ops[i].op = "fetchall" => ~PositiveOption(kwargs_chunk)
    /\ ~PositiveOption(kwargs_chunk) =>
          \A k \in 1..Len(tables) :
              LET name == tables[k]
                  rows == SourceTable(name).rows
                  at == Positions(name, "executemany")
              IN  (k < idx /\ Len(rows) > 0) =>
                      /\ Cardinality(Positions(name, "fetchall")) = 1
                      /\ Cardinality(at) = 1
                      /\ \A i \in at :
                            /\ ops[i].rows = rows
                            /\ ops[i - 1].op = "fetchall"
                            /\ ops[i - 1].rows = rows
                            /\ {j \in Positions(name, "commit") : j > i} = {i + 1}

\* the run has returned after a table of three rows was moved at once under
\* an integer chunk option that is zero or negative
C15_Witness ==
    /\ pc = "done"
    /\ ~kwargs_chunk.none
    /\ kwargs_chunk.value <= 0
    /\ \E k \in 1..Len(tables) :
          /\ Len(SourceTable(tables[k]).rows) = 3
          /\ \E i \in Positions(tables[k], "executemany") : Len(ops[i].rows) = 3

RECURSIVE LeadingToken(_)
\* the characters of s before its first "("
LeadingToken(s) ==
    IF s = "" \/ CharAt(s, 1) = "(" THEN ""
    ELSE CharAt(s, 1) \o LeadingToken(Tail(s))

StartsWith(s, part) == Len(s) >= Len(part) /\ SubSeq(s, 1, Len(part)) = part

EndsWith(s, part) ==
    Len(s) >= Len(part) /\ SubSeq(s, Len(s) - Len(part) + 1, Len(s)) = part

\* the character of s at position i, "" past the end of s
CharOrEnd(s, i) == IF i <= Len(s) THEN CharAt(s, i) ELSE ""

\* the type names of the translation rules, by family
TextNames == {"TEXT", "CLOB"}
CharNames == {"CHARACTER", "NCHAR", "NATIVE CHARACTER"}
VarcharNames == {"VARYING CHARACTER", "NVARCHAR", "VARCHAR"}
DoubleNames == {"DOUBLE PRECISION"}
UnsignedNames == {"UNSIGNED BIG INT"}
SmallIntNames == {"INT1", "INT2"}

\* result is what the rule of the family of token gives for the declared type
\* input, lengths left aside; a token of no family leaves input upper-cased
MappedByRule(token, input, result) ==
    /\ ~result.raised
    /\ LET type == result.value
           length == {"", "("}
       IN  CASE token \in TextNames -> type = "TEXT"
             [] token \in CharNames ->
                    StartsWith(type, "CHAR") /\ CharOrEnd(type, 5) \in length
             [] token \in VarcharNames -> StartsWith(type, "VARCHAR(")
             [] token \in DoubleNames -> type = "DOUBLE"
             [] token \in UnsignedNames ->
                    /\ StartsWith(type, "BIGINT") /\ EndsWith(type, " UNSIGNED")
                    /\ CharOrEnd(type, 7) \in {" ", "("}
             [] token \in SmallIntNames -> type = "INT"
             [] OTHER -> type = upper(input)

\* C16, as stated: a declared type is classified by the characters before its
\* first "(", compared without regard to case: when they are not only
\* whitespace, a token of a family is translated by the rule of the family and
\* any other declared type is returned whole, upper-cased.
C16_TokenClassification ==
    (mysql_type # Idle /\ strip(LeadingToken(column_type)) # "") =>
        MappedByRule(upper(LeadingToken(column_type)), column_type, mysql_type)

\* C16, amended: the token is taken from the declared type with the
\* whitespace around it removed: the characters of the stripped string
\* before its first "(", compared without regard to case.  With an empty
\* token the translator raises; a token of a family is translated by the
\* rule of the family; any other declared type is returned whole, as it was
\* declared (not stripped), upper-cased.
C16_StrippedTokenClassification ==
    mysql_type # Idle =>
        LET token == upper(LeadingToken(strip(column_type)))
        IN  IF token = "" THEN mysql_type = Raised(ValueError)
            ELSE MappedByRule(token, column_type, mysql_type)

\* the translator was called on a family name in lower case with a space
\* before and after it
C16_Witness ==
    /\ column_type = " int1 "
    /\ mysql_type = Returned("INT")

RECURSIVE DigitsUpTo(_, _)
\* the number of digits of s in a row that end at position i
DigitsUpTo(s, i) ==
    IF i >= 1 /\ CharAt(s, i) \in Digits THEN 1 + DigitsUpTo(s, i - 1) ELSE 0

\* the "(n)" s ends with, n one or more digits; "" when s does not end so
TrailingLength(s) ==
    LET n == Len(s)
        k == DigitsUpTo(s, n - 1)
    IN  IF n >= 3 /\ CharAt(s, n) = ")" /\ k >= 1 /\ n - k - 1 >= 1
           /\ CharAt(s, n - k - 1) = "("
        THEN SubSeq(s, n - k - 1, n)
        ELSE ""

\* C17: for a declared type of the CHAR family, the VARCHAR family or
\* UNSIGNED BIG INT, the translated type carries the "(n)" the declared type
\* ends with, n a run of digits; when the declared type does not end so, the
\* VARCHAR family gets "(255)" and the other two no length.  TEXT, CLOB,
\* DOUBLE PRECISION, INT1 and INT2 are translated without any suffix.
C17_LengthSuffix ==
    mysql_type # Idle =>
        LET token == upper(LeadingToken(strip(column_type)))
            given == TrailingLength(column_type)
        IN  /\ token \in CharNames => mysql_type = Returned("CHAR" \o given)
            /\ token \in VarcharNames =>
                  mysql_type = Returned("VARCHAR" \o (IF given = "" THEN "(255)" ELSE given))
            /\ token \in UnsignedNames =>
                  mysql_type = Returned("BIGINT" \o given \o " UNSIGNED")
            /\ token \in TextNames => mysql_type = Returned("TEXT")
            /\ token \in DoubleNames => mysql_type = Returned("DOUBLE")
            /\ token \in SmallIntNames => mysql_type = Returned("INT")

\* the translator was called on a VARCHAR whose parentheses hold more than
\* digits, and gave it the default length
C17_Witness ==
    /\ column_type = "NVARCHAR(10,2)"
    /\ mysql_type = Returned("VARCHAR(255)")

\* C18: in the statement built, at most one column definition carries
\* AUTO_INCREMENT, and a column whose definition carries it is the column the
\* PRIMARY KEY clause names, also when several columns carry the primary-key
\* flag.
C18_AutoIncrementIsTheKey ==
    (create_sql # Idle /\ ~create_sql.raised) =>
        LET sql == create_sql.value
            auto == {i \in ColumnClauses(sql) : sql[i].auto_increment = "AUTO_INCREMENT"}
        IN  /\ Cardinality(auto) <= 1
            /\ \A i \in auto : \E k \in KeyClauses(sql) : sql[k].name = sql[i].name

\* C19: the CREATE TABLE a destination table was made with holds one column
\* definition per source column, in the order of the source columns, none
\* dropped or repeated; and every row the inserts put in the table holds, in
\* each column, the value a source row of the table has in the column of
\* that name, so each value of a tuple went to the column at its place in
\* the field list.
C19_ColumnOrderKept ==
    \A name \in Range(tables) :
        mysql[name].exists =>
            LET columns == SourceTable(name).columns
                rows == SourceTable(name).rows
                ddl == mysql[name].ddl
            IN  /\ Cardinality(ColumnClauses(ddl)) = Len(columns)
                /\ \A c \in 1..Len(columns) :
                      /\ ddl[c + 1].kind = "column"
                      /\ ddl[c + 1].name = columns[c].name
                /\ \A r \in 1..Len(mysql[name].rows) :
                      \E i \in 1..Len(rows) :
                          \A c \in 1..Len(columns) :
                              mysql[name].rows[r][c] = rows[i].values[c]

\* the run has returned and a destination table of two columns holds a row
\* whose two values differ
C19_Witness ==
    /\ pc = "done"
    /\ \E name \in Range(tables) :
          /\ mysql[name].exists
          /\ Len(SourceTable(name).columns) = 2
          /\ \E r \in 1..Len(mysql[name].rows) :
                mysql[name].rows[r][1] # mysql[name].rows[r][2]

====
